---- MODULE Spec2Model ----
(***************************************************************************)
(* A model of trynannou (src/src/main.rs): particles orbiting a centre,    *)
(* a bounded newest-first history of their snapshots, and the ribbon mesh  *)
(* that draw_history builds from that history.                             *)
(*                                                                         *)
(* Numbers.  f32 quantities are integers here.  Colour channels are        *)
(* counted in steps of 1/Unit (hue: Unit steps per turn; saturation,       *)
(* lightness and alpha: Unit is 1.0).  Positions and velocities are        *)
(* integer vectors, every f32 division truncating toward zero.  Indices    *)
(* of the mesh are the program's 0-based usize values; a TLA+ sequence     *)
(* holds the element of 0-based index i at position i + 1.                 *)
(***************************************************************************)
EXTENDS Integers, Sequences, FiniteSets

\* ------------------------------------------------------------------ bounds
\* PARTICLES and HISTORY are the program's constants (16 and 200), scaled.
PARTICLES == 3
HISTORY == 3
\* steps per unit of a colour channel, and the tweak magnitude (0.008) in steps
Unit == 8
Mag == 1
\* update ticks explored: enough to fill the history and evict twice
MaxTicks == HISTORY + 2

\* ------------------------------------------------------- program constants
ORBITAL_RADIUS == 1000
VARY_VELOCITY == 100

\* ------------------------------------------------------------- arithmetic
Abs(a) == IF a < 0 THEN -a ELSE a

Min(a, b) == IF a < b THEN a ELSE b

\* f32 division, truncating toward zero
Quot(a, b) == IF (a < 0) = (b < 0) THEN Abs(a) \div Abs(b) ELSE -(Abs(a) \div Abs(b))

\* Rust's % on floats: the remainder has the sign of the dividend
RustRem(a, m) == IF a < 0 THEN -((-a) % m) ELSE a % m

clamp(a, lo, hi) == IF a < lo THEN lo ELSE IF a > hi THEN hi ELSE a

RECURSIVE SqrtIter(_, _, _)
SqrtIter(n, lo, hi) ==
    IF lo >= hi THEN lo
    ELSE LET mid == (lo + hi + 1) \div 2
         IN  IF mid * mid <= n THEN SqrtIter(n, mid, hi) ELSE SqrtIter(n, lo, mid - 1)

\* f32::sqrt, rounded down
sqrt(n) == SqrtIter(n, 0, Min(n, 46340))

\* ---------------------------------------------------------------- vectors
\* A Point2/Vec2; nan marks a vector whose components are NaN.
Vec(x, y) == [x |-> x, y |-> y, nan |-> FALSE]

NaNVec == [x |-> 0, y |-> 0, nan |-> TRUE]

length(v) == sqrt(v.x * v.x + v.y * v.y)

\* Vec2::normalize: v / |v|, NaN for the zero vector
normalize(v) ==
    IF v.nan \/ length(v) = 0 THEN NaNVec
    ELSE Vec(Quot(v.x, length(v)), Quot(v.y, length(v)))

\* gm(): ORBITAL_RADIUS * 57.0
gm == ORBITAL_RADIUS * 57

\* Particle::update
ParticleUpdate(p, delta_seconds) ==
    LET pos == IF p.pos.nan \/ p.vel.nan THEN NaNVec
               ELSE Vec(p.pos.x + p.vel.x * delta_seconds,
                        p.pos.y + p.vel.y * delta_seconds)
        n == normalize(pos)
        \* force = 1.0 / (pos.length() * 2.0); gravity = -normalize(pos) + force * dt
        vel == IF n.nan \/ p.vel.nan THEN NaNVec
               ELSE LET force == Quot(1, length(pos) * 2)
                    IN  Vec(p.vel.x - n.x + force * delta_seconds,
                            p.vel.y - n.y + force * delta_seconds)
    IN  [pos |-> pos, vel |-> vel]

\* point_on_circle() * ORBITAL_RADIUS for the accepted sample (x, y) of
\* [-1, 1]^2; the loop draws again when x * x + y * y is 0.
point_on_circle(x, y) ==
    LET len == x * x + y * y
    IN  Vec(Quot(x * ORBITAL_RADIUS * 1000, sqrt(len * 1000000)),
            Quot(y * ORBITAL_RADIUS * 1000, sqrt(len * 1000000)))

\* The body of the closure that builds one particle in model()
NewParticle(x, y, forward, jitter) ==
    LET pos == point_on_circle(x, y)
        speed == (IF forward THEN sqrt(gm) ELSE -sqrt(gm)) + jitter
        tangent == Vec(pos.y, -pos.x)
    IN  [pos |-> pos,
         vel |-> Vec(Quot(speed * tangent.x, length(tangent)),
                     Quot(speed * tangent.y, length(tangent)))]

\* ----------------------------------------------------------------- colours
hsla(h, s, l, a) == [hue |-> h, saturation |-> s, lightness |-> l, alpha |-> a]

\* RgbHue::to_radians() / TAU: the hue in turns, brought into (-1/2, 1/2]
HueTurns(h) ==
    LET r == ((h % Unit) + Unit) % Unit
    IN  IF 2 * r > Unit THEN r - Unit ELSE r

\* tweak_color, rr being the three results of random_range(-mag, mag) in
\* the order the code draws them: hue, saturation, lightness
tweak_color(c, rr) ==
    LET hue == RustRem(HueTurns(c.hue) + rr[1], Unit)
        sat == clamp(c.saturation + rr[2], 0, Unit)
        light == clamp(c.lightness + rr[3], 0, Unit)
    IN  hsla(hue, sat, light, c.alpha)

\* The colours model() gives the particles: hues spread by map_range over
\* [hue_start, hue_start + hue_run], then % 1.0
InitialColors(hue_start, hue_run) ==
    [i \in 1..PARTICLES |->
        hsla(RustRem(hue_start + Quot((i - 1) * hue_run, PARTICLES - 1), Unit),
             Unit \div 2, Unit \div 2, Unit \div 2)]

\* ------------------------------------------------------------------ inputs
\* Results of one call of tweak_color's rr(): the ends of [-mag, mag]
Samples == {-Mag, Mag}

\* The three results one call of tweak_color draws, as explored by update
Draws == {<<x, x, x>> : x \in Samples}

\* Every triple of samples of [-mag, mag]
AllDraws == (-Mag..Mag) \X (-Mag..Mag) \X (-Mag..Mag)

\* The draws of one tick, particle by particle: one triple for the odd
\* particles and one for the even ones
Streams == {[i \in 1..PARTICLES |-> IF i % 2 = 1 THEN a ELSE b] : a \in Draws, b \in Draws}

\* random::<f32>() for hue_start: the ends and the middle of [0, 1)
HueStarts == {0, Unit \div 2, Unit - 1}

\* random_range(0.2, 0.4) for hue_run
HueRuns == {Unit \div 4}

\* random_range(0.0, 1.0) for background_hue
BackgroundHues == {Unit \div 2}

\* update.since_last, in seconds
Deltas == {1}

\* Accepted samples of point_on_circle, and the draws of model() for
\* particle i: a sample, the coin for the direction, the velocity jitter
CircleSamples ==
    << <<1, 0>>, <<1, 1>>, <<0, 1>>, <<-1, 1>>, <<-1, 0>>, <<-1, -1>>, <<0, -1>>, <<1, -1>> >>

InitialParticles ==
    [i \in 1..PARTICLES |->
        LET xy == CircleSamples[((i - 1) % 8) + 1]
        IN  NewParticle(xy[1], xy[2], i % 2 = 0,
                        IF i % 3 = 0 THEN -VARY_VELOCITY ELSE VARY_VELOCITY \div i)]

\* ----------------------------------------------------------------- history
\* push_back where push_front is meant
push_back(h, r) == h \o <<r>>

\* VecDeque::push_front
push_front(h, r) == <<r>> \o h

\* truncate with a capacity that is one record too large
truncate_one_more(h, len) == IF Len(h) <= len + 1 THEN h ELSE SubSeq(h, 1, len + 1)

\* VecDeque::truncate: keep the first len elements
truncate(h, len) == IF Len(h) <= len THEN h ELSE SubSeq(h, 1, len)

\* The records of a tick in an order that turns with the tick
BatchRecordsTurning(ps, cs, rrs, tick) ==
    LET n == Min(Len(ps), Len(cs))
    IN  [i \in 1..n |->
            LET k == ((i - 1 + tick) % n) + 1
            IN  [pos |-> ps[k].pos, color |-> tweak_color(cs[k], rrs[k]),
                 tick |-> tick, particle |-> k]]

\* The records one tick makes, in the order of particles.iter().zip(colors.iter()).
\* tick and particle label a record with the tick that made it and the
\* particle it is a snapshot of; the program stores pos and color only.
BatchRecords(ps, cs, rrs, tick) ==
    [i \in 1..Min(Len(ps), Len(cs)) |->
        [pos |-> ps[i].pos, color |-> tweak_color(cs[i], rrs[i]),
         tick |-> tick, particle |-> i]]

\* The loop of update: one push_front per record, in order
RECURSIVE PushAll(_, _)
PushAll(h, records) ==
    IF records = <<>> THEN h
    ELSE PushAll(push_front(h, Head(records)), Tail(records))

\* model.colors taking the tweaked colours of the tick
ColorsWrittenBack(cs, records) == [i \in 1..Len(cs) |-> records[i].color]

\* model.colors after a tick: update only borrows it (colors.iter()), the
\* tweaked colour goes into the record and nowhere else
ColorsAfterTick(cs, records) == cs

\* -------------------------------------------------------------------- mesh
\* idx with the stride of a row one too small
idx_short_stride(epoch, particle) == epoch * (PARTICLES - 1) + particle

\* fn idx(history, particle)
idx(epoch, particle) == epoch * PARTICLES + particle

\* the windows of lo..=hi
tuple_windows_inclusive(lo, hi) ==
    [i \in 1..(IF hi - lo >= 1 THEN hi - lo ELSE 0) |-> <<lo + i - 1, lo + i>>]

\* (lo..hi).tuple_windows(): the pairs of neighbours of lo, lo + 1, .., hi - 1
tuple_windows(lo, hi) ==
    [i \in 1..(IF hi - lo >= 2 THEN hi - lo - 1 ELSE 0) |-> <<lo + i - 1, lo + i>>]

\* the second triangle with its last two corners exchanged
QuadMixedWinding(past, pres, particle_a, particle_b) ==
    << past * PARTICLES + particle_a, pres * PARTICLES + particle_a,
       pres * PARTICLES + particle_b, past * PARTICLES + particle_a,
       past * PARTICLES + particle_b, pres * PARTICLES + particle_b >>

\* The array the inner closure returns for (past, pres)
Quad(past, pres, particle_a, particle_b) ==
    << idx(past, particle_a), idx(pres, particle_a), idx(pres, particle_b),
       idx(past, particle_a), idx(pres, particle_b), idx(past, particle_b) >>

\* the quads of one pair of particles, last window first
RECURSIVE EpochQuadsReversed(_, _, _)
EpochQuadsReversed(epoch_pairs, particle_a, particle_b) ==
    IF epoch_pairs = <<>> THEN <<>>
    ELSE EpochQuadsReversed(Tail(epoch_pairs), particle_a, particle_b)
         \o << Head(epoch_pairs)[1] * PARTICLES + particle_a,
               Head(epoch_pairs)[2] * PARTICLES + particle_a,
               Head(epoch_pairs)[2] * PARTICLES + particle_b,
               Head(epoch_pairs)[1] * PARTICLES + particle_a,
               Head(epoch_pairs)[2] * PARTICLES + particle_b,
               Head(epoch_pairs)[1] * PARTICLES + particle_b >>

\* (0..history_epochs).tuple_windows().flat_map(..) for one pair of particles
RECURSIVE EpochQuads(_, _, _)
EpochQuads(epoch_pairs, particle_a, particle_b) ==
    IF epoch_pairs = <<>> THEN <<>>
    ELSE Quad(Head(epoch_pairs)[1], Head(epoch_pairs)[2], particle_a, particle_b)
         \o EpochQuads(Tail(epoch_pairs), particle_a, particle_b)

\* (0..PARTICLES).tuple_windows().flat_map(..)
RECURSIVE Idxs(_, _)
Idxs(particle_pairs, history_epochs) ==
    IF particle_pairs = <<>> THEN <<>>
    ELSE EpochQuads(tuple_windows(0, history_epochs),
                    Head(particle_pairs)[1], Head(particle_pairs)[2])
         \o Idxs(Tail(particle_pairs), history_epochs)

\* The vertices: (record.pos.extend((i / PARTICLES) as f32), record.color)
Verts(h) ==
    [i \in 1..Len(h) |->
        [pos |-> h[i].pos, z |-> (i - 1) \div PARTICLES, color |-> h[i].color]]

NoMesh ==
    [returned_early |-> FALSE, assert_evaluated |-> FALSE, panicked |-> FALSE,
     submitted |-> FALSE, verts |-> <<>>, idxs |-> <<>>]

\* draw_history without the test of history.is_empty()
draw_history_unguarded(h) ==
    IF Len(h) % PARTICLES # 0
    THEN [NoMesh EXCEPT !.assert_evaluated = TRUE, !.panicked = TRUE]
    ELSE [NoMesh EXCEPT !.assert_evaluated = TRUE, !.submitted = TRUE,
                        !.verts = Verts(h),
                        !.idxs = Idxs(tuple_windows(0, PARTICLES), Len(h) \div PARTICLES)]

\* draw_history: what it did and the mesh it handed to draw.mesh()
draw_history(h) ==
    IF Len(h) = 0 THEN [NoMesh EXCEPT !.returned_early = TRUE]
    ELSE LET history_epochs == Len(h) \div PARTICLES
         IN  IF Len(h) % PARTICLES # 0
             THEN [NoMesh EXCEPT !.assert_evaluated = TRUE, !.panicked = TRUE]
             ELSE [NoMesh EXCEPT !.assert_evaluated = TRUE, !.submitted = TRUE,
                                 !.verts = Verts(h),
                                 !.idxs = Idxs(tuple_windows(0, PARTICLES), history_epochs)]

\* ------------------------------------------------------------------- state
VARIABLES
    particles,      \* model.particles
    colors,         \* model.colors
    background,     \* model.background
    circle_color,   \* model.circle_color
    history,        \* model.history, front first
    ticks,          \* the number of calls of update so far
    frame           \* what the last view since the last update drew, if any

vars == <<particles, colors, background, circle_color, history, ticks, frame>>

\* hsl(h, s, l), s and l given in hundredths
hsl(h, s, l) == [hue |-> h, saturation |-> (s * Unit) \div 100, lightness |-> (l * Unit) \div 100]

\* fn model
Init ==
    \E hue_start \in HueStarts, hue_run \in HueRuns, background_hue \in BackgroundHues :
        /\ particles = InitialParticles
        /\ colors = InitialColors(hue_start, hue_run)
        /\ background = hsl(background_hue, 38, 33)
        /\ circle_color = hsl(background_hue, 36, 33)
        /\ history = <<>>
        /\ ticks = 0
        /\ frame = <<>>

\* fn update
Update ==
    /\ ticks < MaxTicks
    /\ \E delta_seconds \in Deltas, rrs \in Streams :
        LET moved == [i \in 1..PARTICLES |-> ParticleUpdate(particles[i], delta_seconds)]
            records == BatchRecords(moved, colors, rrs, ticks + 1)
        IN  /\ particles' = moved
            /\ history' = truncate(PushAll(history, records), HISTORY * PARTICLES)
            /\ colors' = ColorsAfterTick(colors, records)
    /\ ticks' = ticks + 1
    /\ frame' = <<>>
    /\ UNCHANGED <<background, circle_color>>

\* fn view; the Draw it fills lives until view returns, the model keeps
\* what it held until the next update
View ==
    /\ frame' = << [background |-> background,
                    ellipse |-> [radius |-> ORBITAL_RADIUS, color |-> circle_color],
                    mesh |-> draw_history(history)] >>
    /\ UNCHANGED <<particles, colors, background, circle_color, history, ticks>>

Next == Update \/ View

Spec == Init /\ [][Next]_vars

\* ------------------------------------------------------------ observations
\* the number of whole epochs in the history
Epochs == Len(history) \div PARTICLES

\* the record of 0-based flat index epoch * PARTICLES + slot
Rec(epoch, slot) == history[epoch * PARTICLES + slot + 1]

\* a view has drawn the current history
Drawn == frame # <<>>

Mesh == frame[1].mesh

\* the colours tweak_color can make of c, over every sample of [-mag, mag]
TweakSet(c) == {tweak_color(c, d) : d \in AllDraws}

\* the distance of two hues around the circle
HueDistance(a, b) ==
    LET d == (((a - b) % Unit) + Unit) % Unit
    IN  Min(d, Unit - d)

\* ---------------------------------------------------------------------- C1
\* C1: whenever the history can be observed, its length is a multiple of
\* PARTICLES and at most HISTORY * PARTICLES, and the assertion of
\* draw_history has not failed in any view.
C1_WholeEpochsWithinCapacity ==
    /\ Len(history) % PARTICLES = 0
    /\ Len(history) <= HISTORY * PARTICLES
    /\ Drawn => ~Mesh.panicked

\* a view of a full history after the first eviction evaluated the assertion
C1_Witness ==
    /\ ticks > HISTORY
    /\ Len(history) = HISTORY * PARTICLES
    /\ Drawn
    /\ Mesh.assert_evaluated

C3_HueInUnitInterval ==
    \A i \in 1..Len(history) : history[i].color.hue \in 0..(Unit - 1)

\* ---------------------------------------------------------------------- C4
\* C4: of a history of E >= 1 whole epochs draw_history emits E * PARTICLES
\* vertices and (PARTICLES - 1) * (E - 1) * 6 indices.
C4_MeshSize ==
    (Drawn /\ Len(history) > 0) =>
        /\ Mesh.submitted
        /\ Len(Mesh.verts) = Epochs * PARTICLES
        /\ Len(Mesh.idxs) = (PARTICLES - 1) * (Epochs - 1) * 6

\* a mesh of two epochs, with one quad for each pair of neighbours
C4_Witness ==
    /\ Drawn
    /\ Epochs = 2
    /\ Len(Mesh.verts) = 2 * PARTICLES
    /\ Len(Mesh.idxs) = (PARTICLES - 1) * 6

\* ------------------------------------------------------ reading the mesh
\* the k-th group (k from 0) of n consecutive indices of the index list
Group(ix, n, k) == SubSeq(ix, n * k + 1, n * k + n)

\* the epoch and the slot an index names
EpochOf(index) == index \div PARTICLES

SlotOf(index) == index % PARTICLES

EpochsIn(group) == {EpochOf(group[j]) : j \in 1..Len(group)}

SlotsIn(group) == {SlotOf(group[j]) : j \in 1..Len(group)}

\* the positions, among the quads of the index list, of those of slots a, a + 1
QuadsOfPair(ix, a) == {k \in 0..(Len(ix) \div 6 - 1) : SlotsIn(Group(ix, 6, k)) = {a, a + 1}}

FirstOf(S) == CHOOSE k \in S : \A j \in S : k <= j

LastOf(S) == CHOOSE k \in S : \A j \in S : k >= j

\* twice the signed area of a triangle, its corners at (epoch, slot)
SignedArea(t) ==
    (EpochOf(t[2]) - EpochOf(t[1])) * (SlotOf(t[3]) - SlotOf(t[1]))
    - (EpochOf(t[3]) - EpochOf(t[1])) * (SlotOf(t[2]) - SlotOf(t[1]))

\* ---------------------------------------------------------------------- C5
\* C5: the index list is made of the quads (past, a), (past + 1, a),
\* (past + 1, a + 1), (past, a), (past + 1, a + 1), (past, a + 1), one for
\* every slot a below PARTICLES - 1 and every epoch past below E - 1, each
\* once and nothing else; every index is below E * PARTICLES and every
\* triangle stays within two neighbouring slots.
C5_ExpectedQuad(past, a) ==
    << past * PARTICLES + a, (past + 1) * PARTICLES + a, (past + 1) * PARTICLES + a + 1,
       past * PARTICLES + a, (past + 1) * PARTICLES + a + 1, past * PARTICLES + a + 1 >>

C5_QuadsOfTheRibbon ==
    (Drawn /\ Mesh.submitted) =>
        LET ix == Mesh.idxs
            expected == {C5_ExpectedQuad(past, a) :
                            past \in 0..(Epochs - 2), a \in 0..(PARTICLES - 2)}
        IN  /\ Len(ix) % 6 = 0
            /\ {Group(ix, 6, k) : k \in 0..(Len(ix) \div 6 - 1)} = expected
            /\ Len(ix) \div 6 = Cardinality(expected)
            /\ \A j \in 1..Len(ix) : ix[j] >= 0 /\ ix[j] < Epochs * PARTICLES
            /\ \A k \in 0..(Len(ix) \div 3 - 1) :
                \E a \in 0..(PARTICLES - 2) : SlotsIn(Group(ix, 3, k)) \subseteq {a, a + 1}

\* a mesh of a full history: several epochs and several pairs of slots
C5_Witness ==
    /\ Drawn
    /\ Mesh.submitted
    /\ Epochs = HISTORY
    /\ Len(Mesh.idxs) >= 12

\* ---------------------------------------------------------------------- C6
\* C6: of an empty history draw_history makes no vertex and no index, hands
\* no mesh to the draw, and returns before the assertion.
C6_EmptyHistoryDrawsNothing ==
    (Drawn /\ Len(history) = 0) =>
        /\ Mesh.returned_early
        /\ ~Mesh.assert_evaluated
        /\ ~Mesh.panicked
        /\ ~Mesh.submitted
        /\ Mesh.verts = <<>>
        /\ Mesh.idxs = <<>>

\* a view before the first update
C6_Witness ==
    /\ ticks = 0
    /\ history = <<>>
    /\ Drawn

\* ---------------------------------------------------------------------- C7
\* C7: after n ticks the history holds the whole batches of the last
\* min(n, HISTORY) ticks and nothing else, the newest first: epoch e holds
\* the PARTICLES records of tick n - e.
C7_LastTicksNewestFirst ==
    /\ Len(history) = Min(ticks, HISTORY) * PARTICLES
    /\ \A e \in 0..(Epochs - 1) :
        /\ \A s \in 0..(PARTICLES - 1) : Rec(e, s).tick = ticks - e
        /\ {Rec(e, s).particle : s \in 0..(PARTICLES - 1)} = 1..PARTICLES

\* two ticks past a full history: two epochs evicted, the oldest kept one
\* being that of tick 3
C7_Witness ==
    /\ ticks = HISTORY + 2
    /\ Len(history) = HISTORY * PARTICLES
    /\ history[Len(history)].tick = 3

\* ---------------------------------------------------------------------- C8
\* C8: the records of one slot are snapshots of one particle, in every
\* epoch of the history.
C8_SlotTracesOneParticle ==
    \A i \in 1..Len(history), j \in 1..Len(history) :
        (i - 1) % PARTICLES = (j - 1) % PARTICLES
            => history[i].particle = history[j].particle

\* after an eviction, slot 0 holds the last particle in its newest and in
\* its oldest epoch
C8_Witness ==
    /\ ticks > HISTORY
    /\ Epochs >= 2
    /\ Rec(0, 0).particle = PARTICLES
    /\ Rec(Epochs - 1, 0).particle = PARTICLES

\* ---------------------------------------------------------------------- C9
\* C9 as stated: of the quads of a pair of slots the first emitted involves
\* the oldest epoch, E - 1, and the last emitted the newest, 0.
C9_OldestEpochFirst ==
    (Drawn /\ Mesh.submitted /\ Epochs >= 2) =>
        \A a \in 0..(PARTICLES - 2) :
            LET quads == QuadsOfPair(Mesh.idxs, a)
            IN  /\ quads # {}
                /\ (Epochs - 1) \in EpochsIn(Group(Mesh.idxs, 6, FirstOf(quads)))
                /\ 0 \in EpochsIn(Group(Mesh.idxs, 6, LastOf(quads)))

\* C9 amended: the quads of a pair of slots are emitted from the newest
\* epoch toward the oldest: the first involves epochs 0 and 1, each next one
\* lies one epoch further back, and the last involves epoch E - 1.
C9_NewestEpochFirst ==
    (Drawn /\ Mesh.submitted /\ Epochs >= 2) =>
        \A a \in 0..(PARTICLES - 2) :
            LET quads == QuadsOfPair(Mesh.idxs, a)
            IN  /\ quads # {}
                /\ EpochsIn(Group(Mesh.idxs, 6, FirstOf(quads))) = {0, 1}
                /\ \A k \in quads :
                    k # LastOf(quads) =>
                        /\ k + 1 \in quads
                        /\ EpochsIn(Group(Mesh.idxs, 6, k + 1))
                            = {e + 1 : e \in EpochsIn(Group(Mesh.idxs, 6, k))}
                /\ (Epochs - 1) \in EpochsIn(Group(Mesh.idxs, 6, LastOf(quads)))

\* a mesh of three epochs or more: the first and the last quad of a pair differ
C9_Witness ==
    /\ Drawn
    /\ Mesh.submitted
    /\ Epochs >= 3
    /\ FirstOf(QuadsOfPair(Mesh.idxs, 0)) # LastOf(QuadsOfPair(Mesh.idxs, 0))

\* --------------------------------------------------------------------- C10
\* C10: with index e * PARTICLES + s at the point (e, s), all triangles of
\* the mesh turn the same way: their signed areas are not zero and have one sign.
C10_OneWinding ==
    (Drawn /\ Mesh.submitted) =>
        LET ix == Mesh.idxs
            areas == {SignedArea(Group(ix, 3, k)) : k \in 0..(Len(ix) \div 3 - 1)}
        IN  /\ 0 \notin areas
            /\ \A x \in areas, y \in areas : (x > 0) = (y > 0)

\* a mesh of four triangles or more
C10_Witness ==
    /\ Drawn
    /\ Mesh.submitted
    /\ Len(Mesh.idxs) \div 3 >= 4
    /\ SignedArea(Group(Mesh.idxs, 3, 0)) = SignedArea(Group(Mesh.idxs, 3, 1))

====
